---- MODULE Spec2Model ----
(***************************************************************************)
(* Model of the Countdown component (src/components/Countdown.tsx).        *)
(*                                                                         *)
(* Numbers are JavaScript numbers; the model represents a number x by the  *)
(* integer x * Denom, so that fractional inputs such as 0.5 are covered.   *)
(* One second is therefore Denom units.                                    *)
(*                                                                         *)
(* A click handler, the render it causes and the effect cleanup / effect   *)
(* body of that render run to completion before any other event or timer   *)
(* callback, so each handler action includes the effect run it triggers.   *)
(***************************************************************************)
EXTENDS Integers, FiniteSets, Sequences, TLC

\* Bounds of the model.
Denom == 2          \* numbers are multiples of 1/Denom
MaxDur == 3         \* typed values range over -MaxDur .. MaxDur seconds
MaxTickers == 2     \* interval handles the timer table can hand out

Second == Denom
Values == (0 - MaxDur * Denom) .. (MaxDur * Denom)
Ids == 1 .. MaxTickers
Null == 0

VARIABLES
    duration,   \* useState<number | string>("")
    timeLeft,   \* useState<number>(0)
    isActive,   \* useState<boolean>(false)
    isPaused,   \* useState<boolean>(false)
    timerRef,   \* useRef<NodeJS.Timeout | null>(null): timerRef.current
    live,       \* interval handles created by setInterval and not yet cleared
    mounted,    \* the component is mounted
    lastOp,     \* history: the operation that ran last
    prev,       \* history: the component's state when that operation began
    script,     \* history: progress through SetDuration, Start, ticks, Pause,
                \* then Reset, or Start again ("resumed") with further ticks and pauses
    setN,       \* history: value given to the SetDuration that opened the script
    ticks       \* history: ticks since the first Start of the script

vars == <<duration, timeLeft, isActive, isPaused, timerRef, live, mounted,
          lastOp, prev, script, setN, ticks>>

\* The two shapes of the duration state: a number, or the empty string.
Num(v) == [type |-> "number", v |-> v]
EmptyStr == [type |-> "string", v |-> 0]

\* Texts the input element can report in event.target.value.
Texts == {[kind |-> "numeral", v |-> x] : x \in Values}
             \cup {[kind |-> "empty", v |-> 0], [kind |-> "garbage", v |-> 0]}

\* Number(text): a numeral converts to its value, "" to 0, anything else to NaN.
ToNumber(text) ==
    CASE text.kind = "numeral" -> [nan |-> FALSE, v |-> text.v]
      [] text.kind = "empty"   -> [nan |-> FALSE, v |-> 0]
      [] OTHER                 -> [nan |-> TRUE, v |-> 0]

\* RunState as the spec names it, from the two flags.
Running == isActive /\ ~isPaused
Paused == ~isActive /\ isPaused
Idle == ~isActive /\ ~isPaused

\* if (timerRef.current) { clearInterval(timerRef.current); timerRef.current = null; }
ClearTimer(t) ==
    IF t.ref # Null THEN [ref |-> Null, live |-> t.live \ {t.ref}] ELSE t

\* The same three lines as they appear in handleSetDuration, handlePause,
\* handleReset and in the cleanup function returned by the effect.
SetDurationClearDropsHandle(t) == [ref |-> Null, live |-> t.live]

SetDurationClear(t) == ClearTimer(t)

PauseClearDropsHandle(t) == [ref |-> Null, live |-> t.live]

PauseClear(t) == ClearTimer(t)

ResetClearDropsHandle(t) == [ref |-> Null, live |-> t.live]

ResetClear(t) == ClearTimer(t)

EffectCleanupMissing(t) == t

EffectCleanup(t) == ClearTimer(t)

\* setInterval returns a handle that no live interval and no reference holds.
HasFreshId(t) == \E i \in Ids : i \notin t.live /\ i # t.ref
FreshId(t) == CHOOSE i \in Ids : i \notin t.live /\ i # t.ref

\* The effect body: if (isActive && !isPaused) timerRef.current = setInterval(...)
EffectBody(a, p, t) ==
    IF a /\ ~p
    THEN [ref |-> FreshId(t), live |-> t.live \cup {FreshId(t)}]
    ELSE t

\* The render after a handler: the effect depends on [isActive, isPaused], so
\* when either changed the previous cleanup runs and then the effect body.
AfterRender(oldA, oldP, newA, newP, t) ==
    IF oldA # newA \/ oldP # newP
    THEN EffectBody(newA, newP, EffectCleanup(t))
    ELSE t

\* The effect body can obtain a handle when it needs one.
CanRender(oldA, oldP, newA, newP, t) ==
    (oldA # newA \/ oldP # newP) /\ newA /\ ~newP => HasFreshId(EffectCleanup(t))

Timer == [ref |-> timerRef, live |-> live]

Snapshot ==
    [duration |-> duration, timeLeft |-> timeLeft, isActive |-> isActive,
     isPaused |-> isPaused, timerRef |-> timerRef, live |-> live]

Init ==
    /\ duration = EmptyStr
    /\ timeLeft = 0
    /\ isActive = FALSE
    /\ isPaused = FALSE
    /\ timerRef = Null
    /\ live = {}
    /\ mounted = TRUE
    /\ lastOp = "Mount"
    /\ prev = Snapshot
    /\ script = "none"
    /\ setN = 0
    /\ ticks = 0

NoScript == script' = "none" /\ setN' = 0 /\ ticks' = 0

Ran(op) == lastOp' = op /\ prev' = Snapshot

ValidDurationAcceptsZero(d) == d.type = "number" /\ d.v >= 0

\* typeof duration === "number" && duration > 0
ValidDuration(d) == d.type = "number" /\ d.v > 0

handleDurationChange(text) ==
    /\ mounted
    /\ LET value == ToNumber(text)
       IN duration' = IF ~value.nan THEN Num(value.v) ELSE EmptyStr
    /\ Ran("Edit")
    /\ NoScript
    /\ UNCHANGED <<timeLeft, isActive, isPaused, timerRef, live, mounted>>

handleSetDuration ==
    /\ mounted
    /\ Ran("SetDuration")
    /\ IF ValidDuration(duration)
       THEN /\ CanRender(isActive, isPaused, FALSE, FALSE, SetDurationClear(Timer))
            /\ timeLeft' = duration.v
            /\ isActive' = FALSE
            /\ isPaused' = FALSE
            /\ duration' = EmptyStr
            /\ LET t == AfterRender(isActive, isPaused, FALSE, FALSE, SetDurationClear(Timer))
               IN timerRef' = t.ref /\ live' = t.live
            /\ script' = "set" /\ setN' = duration.v /\ ticks' = 0
       ELSE /\ UNCHANGED <<duration, timeLeft, isActive, isPaused, timerRef, live>>
            /\ NoScript
    /\ UNCHANGED mounted

handleStartUnguarded ==
    /\ mounted
    /\ Ran("Start")
    /\ CanRender(isActive, isPaused, TRUE, FALSE, Timer)
    /\ isActive' = TRUE
    /\ isPaused' = FALSE
    /\ LET t == AfterRender(isActive, isPaused, TRUE, FALSE, Timer)
       IN timerRef' = t.ref /\ live' = t.live
    /\ IF script = "set"
       THEN script' = "started" /\ UNCHANGED <<setN, ticks>>
       ELSE IF script = "paused"
            THEN script' = "resumed" /\ UNCHANGED <<setN, ticks>>
            ELSE NoScript
    /\ UNCHANGED <<duration, timeLeft, mounted>>

handleStart ==
    /\ mounted
    /\ Ran("Start")
    /\ IF timeLeft > 0
       THEN /\ CanRender(isActive, isPaused, TRUE, FALSE, Timer)
            /\ isActive' = TRUE
            /\ isPaused' = FALSE
            /\ LET t == AfterRender(isActive, isPaused, TRUE, FALSE, Timer)
               IN timerRef' = t.ref /\ live' = t.live
       ELSE UNCHANGED <<isActive, isPaused, timerRef, live>>
    /\ IF script = "set" /\ timeLeft > 0
       THEN script' = "started" /\ UNCHANGED <<setN, ticks>>
       ELSE IF script = "paused" /\ timeLeft > 0
            THEN script' = "resumed" /\ UNCHANGED <<setN, ticks>>
            ELSE NoScript
    /\ UNCHANGED <<duration, timeLeft, mounted>>

handlePauseUnguarded ==
    /\ mounted
    /\ Ran("Pause")
    /\ CanRender(isActive, isPaused, FALSE, TRUE, PauseClear(Timer))
    /\ isPaused' = TRUE
    /\ isActive' = FALSE
    /\ LET t == AfterRender(isActive, isPaused, FALSE, TRUE, PauseClear(Timer))
       IN timerRef' = t.ref /\ live' = t.live
    /\ IF script \in {"started", "resumed"} /\ isActive
       THEN script' = "paused" /\ UNCHANGED <<setN, ticks>>
       ELSE NoScript
    /\ UNCHANGED <<duration, timeLeft, mounted>>

handlePauseKeepsActive ==
    /\ mounted
    /\ Ran("Pause")
    /\ IF isActive
       THEN /\ CanRender(isActive, isPaused, isActive, TRUE, PauseClear(Timer))
            /\ isPaused' = TRUE
            /\ isActive' = isActive
            /\ LET t == AfterRender(isActive, isPaused, isActive, TRUE, PauseClear(Timer))
               IN timerRef' = t.ref /\ live' = t.live
       ELSE UNCHANGED <<isActive, isPaused, timerRef, live>>
    /\ IF script \in {"started", "resumed"} /\ isActive
       THEN script' = "paused" /\ UNCHANGED <<setN, ticks>>
       ELSE NoScript
    /\ UNCHANGED <<duration, timeLeft, mounted>>

handlePause ==
    /\ mounted
    /\ Ran("Pause")
    /\ IF isActive
       THEN /\ CanRender(isActive, isPaused, FALSE, TRUE, PauseClear(Timer))
            /\ isPaused' = TRUE
            /\ isActive' = FALSE
            /\ LET t == AfterRender(isActive, isPaused, FALSE, TRUE, PauseClear(Timer))
               IN timerRef' = t.ref /\ live' = t.live
       ELSE UNCHANGED <<isActive, isPaused, timerRef, live>>
    /\ IF script \in {"started", "resumed"} /\ isActive
       THEN script' = "paused" /\ UNCHANGED <<setN, ticks>>
       ELSE NoScript
    /\ UNCHANGED <<duration, timeLeft, mounted>>

handleResetValidates ==
    /\ mounted
    /\ Ran("Reset")
    /\ CanRender(isActive, isPaused, FALSE, FALSE, ResetClear(Timer))
    /\ isActive' = FALSE
    /\ isPaused' = FALSE
    /\ timeLeft' = IF ValidDuration(duration) THEN duration.v ELSE 0
    /\ LET t == AfterRender(isActive, isPaused, FALSE, FALSE, ResetClear(Timer))
       IN timerRef' = t.ref /\ live' = t.live
    /\ IF script = "paused"
       THEN script' = "reset" /\ UNCHANGED <<setN, ticks>>
       ELSE NoScript
    /\ UNCHANGED <<duration, mounted>>

handleReset ==
    /\ mounted
    /\ Ran("Reset")
    /\ CanRender(isActive, isPaused, FALSE, FALSE, ResetClear(Timer))
    /\ isActive' = FALSE
    /\ isPaused' = FALSE
    /\ timeLeft' = IF duration.type = "number" THEN duration.v ELSE 0
    /\ LET t == AfterRender(isActive, isPaused, FALSE, FALSE, ResetClear(Timer))
       IN timerRef' = t.ref /\ live' = t.live
    /\ IF script = "paused"
       THEN script' = "reset" /\ UNCHANGED <<setN, ticks>>
       ELSE NoScript
    /\ UNCHANGED <<duration, mounted>>

TickStopsLate(id) ==
    /\ id \in live
    /\ Ran("Tick")
    /\ IF mounted
       THEN /\ timeLeft' = timeLeft - Second
            /\ IF timeLeft <= 0
               THEN /\ live' = live \ {timerRef}
                    /\ timerRef' = Null
               ELSE UNCHANGED <<timerRef, live>>
       ELSE UNCHANGED <<timeLeft, timerRef, live>>
    /\ IF script \in {"started", "resumed"}
       THEN ticks' = ticks + 1 /\ UNCHANGED <<script, setN>>
       ELSE NoScript
    /\ UNCHANGED <<duration, isActive, isPaused, mounted>>

\* The interval callback of handle id: setTimeLeft with the updater
\*   prevTime <= 1 ? clear timerRef.current : nothing; return prevTime - 1.
\* An update of an unmounted component is dropped.
Tick(id) ==
    /\ id \in live
    /\ Ran("Tick")
    /\ IF mounted
       THEN /\ timeLeft' = timeLeft - Second
            /\ IF timeLeft <= Second
               THEN /\ live' = live \ {timerRef}
                    /\ timerRef' = Null
               ELSE UNCHANGED <<timerRef, live>>
       ELSE UNCHANGED <<timeLeft, timerRef, live>>
    /\ IF script \in {"started", "resumed"}
       THEN ticks' = ticks + 1 /\ UNCHANGED <<script, setN>>
       ELSE NoScript
    /\ UNCHANGED <<duration, isActive, isPaused, mounted>>

\* Unmounting runs the cleanup of the last effect.
Unmount ==
    /\ mounted
    /\ mounted' = FALSE
    /\ Ran("Unmount")
    /\ LET t == EffectCleanup(Timer)
       IN timerRef' = t.ref /\ live' = t.live
    /\ NoScript
    /\ UNCHANGED <<duration, timeLeft, isActive, isPaused>>

(***************************************************************************)
(* formatTime.  A string is modelled as the sequence of its characters.    *)
(***************************************************************************)
Digits == <<"0", "1", "2", "3", "4", "5", "6", "7", "8", "9">>
Digit(d) == Digits[d + 1]

\* Significant digits String(number) prints at most.
MaxSignificant == 17

RECURSIVE NatToString(_)
NatToString(n) ==
    IF n < 10 THEN <<Digit(n)>> ELSE NatToString(n \div 10) \o <<Digit(n % 10)>>

\* Decimal digits of the fraction r / Denom, by long division.
RECURSIVE FractionToString(_, _)
FractionToString(r, k) ==
    IF r = 0 \/ k = 0
    THEN <<>>
    ELSE <<Digit((r * 10) \div Denom)>> \o FractionToString((r * 10) % Denom, k - 1)

\* String(x) for the number x = v / Denom: sign, integer part, and the
\* fraction when there is one.
NumberToString(v) ==
    LET a == IF v < 0 THEN 0 - v ELSE v
        whole == a \div Denom
        frac == a % Denom
    IN (IF v < 0 THEN <<"-">> ELSE <<>>)
         \o NatToString(whole)
         \o (IF frac = 0 THEN <<>> ELSE <<".">> \o FractionToString(frac, MaxSignificant))

\* str.padStart(n, c): c is put in front until the length is n; a string
\* that is already that long is returned as it is.
RECURSIVE PadStart(_, _, _)
PadStart(str, n, c) ==
    IF Len(str) >= n THEN str ELSE PadStart(<<c>> \o str, n, c)

\* JavaScript's a % b: the remainder takes the sign of the dividend.
Remainder(a, b) == IF a < 0 THEN 0 - ((0 - a) % b) ELSE a % b

\* Math.floor(time / 60), as a number in model units.
FloorMinutes(time) == (time \div (60 * Second)) * Denom

formatTime(time) ==
    LET minutes == FloorMinutes(time)
        seconds == Remainder(time, 60 * Second)
    IN PadStart(NumberToString(minutes), 2, "0")
         \o <<":">>
         \o PadStart(NumberToString(seconds), 2, "0")

Next ==
    \/ \E text \in Texts : handleDurationChange(text)
    \/ handleSetDuration
    \/ handleStart
    \/ handlePause
    \/ handleReset
    \/ \E id \in Ids : Tick(id)
    \/ Unmount

Spec == Init /\ [][Next]_vars

TypeOK ==
    /\ duration \in {Num(v) : v \in Values} \cup {EmptyStr}
    /\ timeLeft \in Int
    /\ isActive \in BOOLEAN
    /\ isPaused \in BOOLEAN
    /\ timerRef \in Ids \cup {Null}
    /\ live \subseteq Ids
    /\ mounted \in BOOLEAN

(***************************************************************************)
(* Run states before the last operation, read from the history record.     *)
(***************************************************************************)
PrevRunning == prev.isActive /\ ~prev.isPaused
PrevPaused == ~prev.isActive /\ prev.isPaused
PrevIdle == ~prev.isActive /\ ~prev.isPaused

(***************************************************************************)
(* C1 as stated: a ticker is live if and only if RunState is Running.      *)
(* Fails once a tick has brought TimeLeft to 0: the ticker is cleared and  *)
(* the flags stay at Running.                                              *)
(***************************************************************************)
C1_TickerIffRunning == mounted => ((live # {}) <=> Running)

\* C1 (amended): while the component is mounted, a ticker is live if and only
\* if RunState is Running and TimeLeft is greater than 0.
C1_TickerIffRunningWithTimeLeft ==
    mounted => ((live # {}) <=> (Running /\ timeLeft > 0))

C1_Witness ==
    /\ mounted /\ lastOp = "Tick" /\ prev.live # {} /\ prev.timeLeft > 0
    /\ Running /\ timeLeft <= 0 /\ live = {}

\* C2: in every reachable state TimeLeft is greater than or equal to 0.
C2_TimeLeftNonNegative == timeLeft >= 0

\* C3: SetDuration(n), Start, optional ticks, Pause, Reset leaves TimeLeft
\* equal to n.
C3_ResetRestoresSetDuration == script = "reset" => timeLeft = setN

\* C4: at most one interval ticker created by the component is live at any
\* time, whatever the interleaving of operations, ticks and effect runs.
C4_AtMostOneTicker == Cardinality(live) <= 1

C4_Witness ==
    /\ lastOp = "Start" /\ PrevPaused /\ prev.live = {} /\ prev.timeLeft > 0
    /\ Running /\ Cardinality(live) = 1 /\ timerRef \in live

\* C5: SetDuration with a pending input that is not a number, is zero or is
\* negative changes neither TimeLeft, nor the flags, nor the ticker.
C5_InvalidSetDurationIsNoOp ==
    [][(lastOp' = "SetDuration" /\ (duration.type # "number" \/ duration.v <= 0))
          => UNCHANGED <<timeLeft, isActive, isPaused, timerRef, live, duration>>]_vars

C5_Witness ==
    /\ lastOp = "SetDuration" /\ prev.duration = Num(0)
    /\ PrevRunning /\ prev.live # {} /\ prev.timeLeft > 0
    /\ Running /\ live = prev.live /\ timeLeft = prev.timeLeft

\* C6: SetDuration with a pending input n > 0, from any state, results in
\* TimeLeft = n, RunState = Idle, no live ticker and an empty pending input.
C6_ValidSetDurationArms ==
    [][(lastOp' = "SetDuration" /\ duration.type = "number" /\ duration.v > 0)
          => /\ timeLeft' = duration.v
             /\ ~isActive' /\ ~isPaused'
             /\ live' = {} /\ timerRef' = Null
             /\ duration' = EmptyStr]_vars

C6_Witness ==
    /\ lastOp = "SetDuration" /\ prev.duration.type = "number" /\ prev.duration.v > 0
    /\ PrevRunning /\ prev.live # {} /\ prev.timeLeft # prev.duration.v
    /\ Idle /\ live = {} /\ timeLeft = prev.duration.v

\* C7: for a positive integer n, SetDuration(n), Start and then ticks with no
\* other operation in between give TimeLeft = n - k after the k-th tick,
\* k <= n, and TimeLeft = 0 with no live ticker after the n-th.
C7_CountsDownToZero ==
    (script = "started" /\ setN % Second = 0) =>
        /\ ticks * Second <= setN
        /\ timeLeft = setN - ticks * Second
        /\ (ticks * Second = setN => timeLeft = 0 /\ live = {} /\ timerRef = Null)
        /\ (ticks * Second < setN => Cardinality(live) = 1)

C7_Witness ==
    /\ script = "started" /\ setN = 2 * Second /\ ticks = 2
    /\ lastOp = "Tick" /\ timeLeft = 0 /\ live = {}

\* C8: Pause while Running moves RunState to Paused, releases the ticker and
\* leaves TimeLeft exactly as it was.
C8_PauseWhileRunning ==
    [][(lastOp' = "Pause" /\ isActive /\ ~isPaused)
          => /\ ~isActive' /\ isPaused'
             /\ live' = {} /\ timerRef' = Null
             /\ timeLeft' = timeLeft]_vars

C8_Witness ==
    /\ lastOp = "Pause" /\ PrevRunning /\ prev.live # {}
    /\ Paused /\ live = {} /\ timeLeft = prev.timeLeft /\ timeLeft > 0

\* C9: Start with TimeLeft > 0 from Idle or Paused moves RunState to Running
\* and establishes a live ticker; Start with TimeLeft <= 0 changes nothing.
C9_StartOnlyWithTimeLeft ==
    [][lastOp' = "Start"
          => /\ (timeLeft > 0 /\ ~isActive)
                   => /\ isActive' /\ ~isPaused'
                      /\ timerRef' \in live' /\ Cardinality(live') = 1
                      /\ timeLeft' = timeLeft
             /\ timeLeft <= 0
                   => UNCHANGED <<isActive, isPaused, timeLeft, timerRef, live>>]_vars

C9_Witness ==
    /\ lastOp = "Start" /\ PrevIdle /\ prev.timeLeft > 0 /\ prev.live = {}
    /\ Running /\ timerRef \in live

\* C10: Reset is enabled in every state of the mounted component and always
\* results in RunState = Idle with no live ticker.
C10_ResetAlwaysIdles ==
    /\ [](mounted => ENABLED handleReset)
    /\ [][lastOp' = "Reset" => (~isActive' /\ ~isPaused' /\ live' = {} /\ timerRef' = Null)]_vars

C10_Witness ==
    /\ lastOp = "Reset" /\ PrevRunning /\ prev.live # {} /\ prev.timeLeft > 0
    /\ Idle /\ live = {}

\* C11: each Tick changes TimeLeft from t to max(t - 1, 0) and changes neither
\* RunState nor the pending input; the ticker is released in the same step
\* exactly when the resulting TimeLeft is 0.
C11_TickDecrementsFlooredAtZero ==
    [][(lastOp' = "Tick" /\ mounted)
          => /\ timeLeft' = (IF timeLeft - Second > 0 THEN timeLeft - Second ELSE 0)
             /\ UNCHANGED <<isActive, isPaused, duration>>
             /\ (live' = {}) <=> (timeLeft' = 0)]_vars

\* The countdown has completed: the flags still say Running, no time is left.
Completed == mounted /\ Running /\ timeLeft <= 0

\* C12 as stated: from the completed state RunState remains Running until a
\* Reset or a successful SetDuration; Start, Pause and the passing of time do
\* not move the machine out of Running.
C12_CompletedStaysRunning ==
    [][(Completed /\ timeLeft = 0 /\ ~(lastOp' = "Reset")
                  /\ ~(lastOp' = "SetDuration" /\ duration.type = "number" /\ duration.v > 0))
          => (isActive' /\ ~isPaused' /\ live' = {})]_vars

\* C12 (amended): once a Tick has brought TimeLeft to 0, ticking stops and
\* RunState remains Running until a Reset, a successful SetDuration or a
\* Pause occurs; Pause moves the completed machine to Paused, while Start,
\* input edits and the passing of time leave it Running with no ticker.
C12_CompletedStaysRunningUntilPause ==
    [][Completed
          => /\ live = {}
             /\ (~(lastOp' = "Reset") /\ ~(lastOp' = "Pause")
                 /\ ~(lastOp' = "SetDuration" /\ duration.type = "number" /\ duration.v > 0))
                   => (isActive' /\ ~isPaused' /\ live' = {} /\ timeLeft' = timeLeft)
             /\ lastOp' = "Pause"
                   => (~isActive' /\ isPaused' /\ live' = {} /\ timeLeft' = timeLeft)]_vars

C12_Witness ==
    /\ mounted /\ lastOp = "Start" /\ PrevRunning /\ prev.timeLeft = 0 /\ prev.live = {}
    /\ Running /\ timeLeft = 0 /\ live = {}

\* C13: when the component is unmounted, from any state, the ticker is
\* released: afterwards no interval is live and no Tick occurs.
C13_UnmountReleasesTicker ==
    ~mounted => (live = {} /\ timerRef = Null /\ lastOp = "Unmount")

C13_Witness ==
    /\ ~mounted /\ lastOp = "Unmount" /\ PrevRunning /\ prev.live # {}
    /\ live = {}

\* C14: while RunState is Paused or Idle no ticker is live and TimeLeft
\* changes only through Reset or SetDuration, so no Tick decrements TimeLeft
\* between a Pause, Reset or successful SetDuration and the next Start.
C14_NoTickWhileStopped ==
    /\ [](~isActive => live = {})
    /\ [][(~isActive /\ timeLeft' # timeLeft)
             => (lastOp' = "Reset" \/ lastOp' = "SetDuration")]_vars
    /\ [][lastOp' = "Tick" => (isActive /\ ~isPaused)]_vars

C14_Witness ==
    /\ mounted /\ lastOp = "Edit" /\ PrevPaused /\ prev.timeLeft > 0
    /\ Paused /\ timeLeft = prev.timeLeft /\ live = {}

IsDigit(c) == \E d \in 0 .. 9 : Digit(d) = c
DigitValue(c) == CHOOSE d \in 0 .. 9 : Digit(d) = c

\* C15: for every value t TimeLeft can hold, formatTime(t) is the two-field
\* string MM:SS, MM being floor(t / 60) and SS being t mod 60, each written
\* with two decimal digits.
C15_FormatIsPaddedMinutesSeconds ==
    LET str == formatTime(timeLeft)
    IN /\ Len(str) = 5
       /\ str[3] = ":"
       /\ \A i \in {1, 2, 4, 5} : IsDigit(str[i])
       /\ (10 * DigitValue(str[1]) + DigitValue(str[2])) * (60 * Second)
              = timeLeft - (timeLeft % (60 * Second))
       /\ (10 * DigitValue(str[4]) + DigitValue(str[5])) * Second
              = timeLeft % (60 * Second)

\* C16: Pause when RunState is not Running (isActive false) is a no-op:
\* RunState, TimeLeft, the ticker and the pending input are unchanged.
C16_PauseWhenNotRunningIsNoOp ==
    [][(lastOp' = "Pause" /\ ~isActive)
          => UNCHANGED <<isActive, isPaused, timeLeft, timerRef, live, duration>>]_vars

C16_Witness ==
    /\ lastOp = "Pause" /\ PrevIdle /\ prev.timeLeft > 0
    /\ Idle /\ timeLeft = prev.timeLeft /\ live = {}

\* C17: isActive and isPaused are never both true, so RunState is exactly one
\* of Idle, Running and Paused.
C17_FlagsNeverBothTrue == ~(isActive /\ isPaused)

C17_Witness ==
    /\ lastOp = "Pause" /\ PrevRunning /\ prev.timeLeft = 0
    /\ ~isActive /\ isPaused

\* C18: whenever a ticker is live TimeLeft is greater than 0, and no Tick
\* fires with TimeLeft <= 0.
C18_LiveTickerHasTimeLeft ==
    /\ [](live # {} => timeLeft > 0)
    /\ [][lastOp' = "Tick" => timeLeft > 0]_vars

C18_Witness ==
    /\ lastOp = "Tick" /\ live # {} /\ timeLeft = 1 /\ prev.timeLeft = Second + 1

InResumeScript == script \in {"started", "resumed", "paused"} /\ setN % Second = 0

\* C20 as stated: for a positive integer n, after SetDuration(n) and Start,
\* any interleaving of Pause / Start pairs with ticks reaches TimeLeft = 0
\* after exactly n ticks, and Pause immediately followed by Start returns to
\* Running with the same TimeLeft and one live ticker.
C20_PauseResumeLossless ==
    /\ [](InResumeScript
            => /\ timeLeft = setN - ticks * Second
               /\ (timeLeft = 0 <=> ticks * Second = setN))
    /\ [][(InResumeScript /\ script = "paused" /\ lastOp = "Pause" /\ lastOp' = "Start")
             => /\ isActive' /\ ~isPaused'
                /\ timeLeft' = prev.timeLeft
                /\ Cardinality(live') = 1]_vars

\* C20 (amended): as stated, except that Pause immediately followed by Start
\* returns to Running with the same TimeLeft and one live ticker only while
\* TimeLeft > 0; once TimeLeft is 0 the Pause leaves Running and the Start
\* changes nothing.
C20_PauseResumeLosslessWithTimeLeft ==
    /\ [](InResumeScript
            => /\ timeLeft = setN - ticks * Second
               /\ (timeLeft = 0 <=> ticks * Second = setN))
    /\ [][(InResumeScript /\ script = "paused" /\ lastOp = "Pause" /\ lastOp' = "Start")
             => IF timeLeft > 0
                THEN /\ isActive' /\ ~isPaused'
                     /\ timeLeft' = prev.timeLeft
                     /\ Cardinality(live') = 1
                ELSE UNCHANGED <<isActive, isPaused, timeLeft, timerRef, live>>]_vars

C20_Witness ==
    /\ script = "resumed" /\ setN = 2 * Second /\ ticks = 2
    /\ lastOp = "Tick" /\ timeLeft = 0 /\ live = {}
====
